---- MODULE Spec2Model ----
(***************************************************************************)
(* Transaction propagation engine of drizzle-transactional.               *)
(*                                                                         *)
(* A "call" is one invocation of a function wrapped by wrapInTransaction.  *)
(* Calls form trees: a call made from outside any wrapped function has     *)
(* parent 0, a call made from the body of call p has parent p.  Every      *)
(* action is one synchronous stretch of the JavaScript code, i.e. the code *)
(* that runs between two suspension points of the event loop.  The         *)
(* suspension points are the database round trips (BEGIN, COMMIT,          *)
(* ROLLBACK, a write) and the awaits of fn; promise continuations that     *)
(* follow one another without a round trip belong to one action.           *)
(*                                                                         *)
(* Object identities are derived from the call: call c creates at most the *)
(* Maps TopStore(c) and InnerStore(c), the emitter c and the database      *)
(* transaction c, whose handle is c; handle 0 is the base database.        *)
(***************************************************************************)
EXTENDS Integers, Sequences, FiniteSets, TLC

\* Bounds of the model.
MaxCalls == 2       \* wrapper invocations
MaxTop == 2         \* of which made from outside any wrapped function
MaxFloating == 1    \* nested calls whose promise the caller does not await
MaxListeners == 2   \* callbacks registered
MaxOps == 3         \* calls and registrations together

VARIABLES
  calls,                 \* sequence of the wrapper invocations made so far
  stores,                \* the Map objects held by AsyncLocalStorage, by id
  emitters,              \* the EventEmitter objects, by id
  listeners,             \* sequence of the callbacks given to runOnTransaction*
  invoked,               \* sequence of the listener invocations made so far
  transactionDatabases,  \* keys of the Map transactionDatabases
  txState,               \* state of every database transaction begun
  writes,                \* writes issued by the bodies, with the handle used
  initialized,           \* data.initialized of storage/index.ts
  registeredDatabases,   \* the Map registeredDatabases: name -> base handle
  outside,               \* how the last API call made from outside any
                         \* wrapped function returned or threw
  prototype,             \* the class the application declared: its method
                         \* as the decorators left it
  methodCache            \* the WeakMap methodCache of the database proxy:
                         \* the bound methods made so far, by handle and
                         \* property

\* The state set up before the first call and read by the engine.
setup == <<initialized, registeredDatabases, outside, prototype, methodCache>>

vars == <<calls, stores, emitters, listeners, invoked,
          transactionDatabases, txState, writes, setup>>

Propagation ==
  {"MANDATORY", "NESTED", "NEVER", "NOT_SUPPORTED",
   "REQUIRED", "REQUIRES_NEW", "SUPPORTS"}

HookKinds == {"commit", "rollback", "end"}

\* ---------------------------------------------------------------- errors
NoError == [code |-> "NONE", n |-> 0]
\* DrizzleTransactionalError.propagationError(type, propagation)
propagationError(type) ==
  IF type = "MANDATORY" THEN [code |-> "PROPAGATION_MANDATORY", n |-> 0]
  ELSE IF type = "NEVER" THEN [code |-> "PROPAGATION_NEVER", n |-> 0]
  ELSE [code |-> "PROPAGATION_UNKNOWN", n |-> 0]
\* DrizzleTransactionalError.contextError(type)
contextError(type) ==
  IF type = "NO_CONTEXT" THEN [code |-> "CONTEXT_NO_CONTEXT", n |-> 0]
  ELSE [code |-> "CONTEXT_NO_HOOK", n |-> 0]
\* new DrizzleTransactionalError(`No transaction database found for ID: ...`)
NoTransactionDatabaseError == [code |-> "NO_TRANSACTION_DATABASE", n |-> 0]
\* DrizzleTransactionalError.notInitialized()
notInitialized == [code |-> "NOT_INITIALIZED", n |-> 0]
\* DrizzleTransactionalError.databaseNotFound(name)
databaseNotFound(name) == [code |-> "DATABASE_NOT_FOUND", n |-> 0]
\* the error thrown by addTransactionalDrizzleDatabase for a bound name
AlreadyRegisteredError == [code |-> "DATABASE_ALREADY_REGISTERED", n |-> 0]
\* the error thrown by the body of call c
UserError(c) == [code |-> "USER", n |-> c]
\* the error thrown by listener l
ListenerError(l) == [code |-> "LISTENER", n |-> l]
\* the error with which the driver rejects when BEGIN of transaction c fails
BeginError(c) == [code |-> "BEGIN_FAILED", n |-> c]

\* ------------------------------------------------- context (storage-driver.ts)
\* new Map(): no key set.  tx is the key CURRENT_TRANSACTION_KEY, dbId the key
\* CURRENT_DB_ID_KEY, hook the key HOOK_CONTEXT_KEY; "absent"/0 is undefined.
EmptyMap == [tx |-> "absent", dbId |-> 0, hook |-> 0]

\* Identity of the Map created by runWithContext in the wrapper of call c
\* when there is no active context (wrap-in-transaction wrapper).
TopStore(c) == 2 * c - 1
\* Variant of InnerStore: one Map shared by all scopes instead of a copy per
\* runWithContext.
InnerStore_Shared(c) == 2
\* Identity of the Map in which the body of call c runs when the call enters
\* a scope of its own (new transaction, or suspended transaction).
InnerStore(c) == 2 * c

\* asyncLocalStorage.getStore() as a value: the Map s, or undefined (0).
StoreValue(s) == IF s = 0 THEN EmptyMap ELSE stores[s]

\* getContextValue(key) evaluated with s as the current store.
getContextValue(s, key) == StoreValue(s)[key]

\* hasActiveContext() evaluated with s as the current store.
hasActiveContext(s) == s # 0

\* The Map built by runWithContext({[key]: value}, fn): a copy of the
\* current store with the entry set.
runWithContext(cur, key, value) == [cur EXCEPT ![key] = value]

\* ------------------------------------------ propagation (wrap-in-transaction)
\* Variant of handlerMANDATORY without the check.
handlerMANDATORY_NoCheck(currentTransaction) == "runOriginal"
handlerMANDATORY(currentTransaction) ==
  IF ~currentTransaction THEN "throw" ELSE "runOriginal"

handlerNESTED(currentTransaction) == "runWithNewTransaction"

\* Variant of handlerNEVER without the check.
handlerNEVER_NoCheck(currentTransaction) == "runWithNewHook"
handlerNEVER(currentTransaction) ==
  IF currentTransaction THEN "throw" ELSE "runWithNewHook"

handlerNOT_SUPPORTED(currentTransaction) ==
  IF currentTransaction THEN "suspend" ELSE "runOriginal"

\* Variant of handlerREQUIRED that never joins.
handlerREQUIRED_AlwaysNew(currentTransaction) == "runWithNewTransaction"
handlerREQUIRED(currentTransaction) ==
  IF currentTransaction THEN "runOriginal" ELSE "runWithNewTransaction"

handlerREQUIRES_NEW(currentTransaction) ==
  IF currentTransaction THEN "suspend" ELSE "runWithNewTransaction"

handlerSUPPORTS(currentTransaction) ==
  IF currentTransaction THEN "runOriginal" ELSE "runWithNewHook"

\* propagationHandlers[propagation](currentTransaction, ...): which of the
\* closures the handler runs.  "suspend" is
\* runWithContext({[CURRENT_TRANSACTION_KEY]: false}, () => runWithNewHook()).
propagationHandlers(propagation, currentTransaction) ==
  CASE propagation = "MANDATORY" -> handlerMANDATORY(currentTransaction)
    [] propagation = "NESTED" -> handlerNESTED(currentTransaction)
    [] propagation = "NEVER" -> handlerNEVER(currentTransaction)
    [] propagation = "NOT_SUPPORTED" -> handlerNOT_SUPPORTED(currentTransaction)
    [] propagation = "REQUIRED" -> handlerREQUIRED(currentTransaction)
    [] propagation = "REQUIRES_NEW" -> handlerREQUIRES_NEW(currentTransaction)
    [] propagation = "SUPPORTS" -> handlerSUPPORTS(currentTransaction)

\* The policies a wrapped function can be declared with: the seven values of
\* the enum, or any other value ("UNKNOWN").
DeclaredPropagation == Propagation \cup {"UNKNOWN"}

\* Variant of executeWithPropagation that falls back to the default policy
\* when no handler is found.
executeWithPropagation_Fallback(propagation, currentTransaction) ==
  IF propagation \notin Propagation
    THEN propagationHandlers("REQUIRED", currentTransaction)
    ELSE propagationHandlers(propagation, currentTransaction)
\* executeWithPropagation(): the handler is looked up and, if there is none,
\* propagationError("UNKNOWN") is thrown; else the handler is run.
executeWithPropagation(propagation, currentTransaction) ==
  IF propagation \notin Propagation
    THEN "throw"
    ELSE propagationHandlers(propagation, currentTransaction)

\* ------------------------------------------------------ database-manager.ts
\* Handles: 0 and -1 are the database objects the application has, t > 0 is
\* the handle of the database transaction t, -2 stands for undefined.
BaseDatabase == 0
OtherDatabase == -1
NoDatabase == -2

DatabaseNames == {"default", "other"}

\* Variant of getDrizzleDatabaseByName that returns undefined for a name
\* that is not registered instead of throwing.
getDrizzleDatabaseByName_NoThrow(name) ==
  IF name \in DOMAIN registeredDatabases
    THEN [database |-> registeredDatabases[name], error |-> NoError]
    ELSE [database |-> NoDatabase, error |-> NoError]
\* getDrizzleDatabaseByName(name): the handle, or the error thrown.
getDrizzleDatabaseByName(name) ==
  IF name \in DOMAIN registeredDatabases
    THEN [database |-> registeredDatabases[name], error |-> NoError]
    ELSE [database |-> NoDatabase, error |-> databaseNotFound(name)]

\* Variant of getCurrentDatabaseInfo(name) that returns the base database
\* when the transaction id of the scope is not in transactionDatabases.
getCurrentDatabaseInfoByName_Fallback(s, name) ==
  LET baseDatabase == getDrizzleDatabaseByName(name)
      currentDbId == getContextValue(s, "dbId")
  IN
  IF baseDatabase.error # NoError
    THEN [database |-> NoDatabase, isTransacting |-> FALSE,
          error |-> baseDatabase.error]
  ELSE IF currentDbId = 0 \/ currentDbId \notin transactionDatabases
    THEN [database |-> baseDatabase.database, isTransacting |-> FALSE,
          error |-> NoError]
  ELSE [database |-> currentDbId, isTransacting |-> TRUE, error |-> NoError]
\* getCurrentDatabaseInfo(name) evaluated with s as the current store.
getCurrentDatabaseInfoByName(s, name) ==
  LET baseDatabase == getDrizzleDatabaseByName(name)
      currentDbId == getContextValue(s, "dbId")
  IN
  IF baseDatabase.error # NoError
    THEN [database |-> NoDatabase, isTransacting |-> FALSE,
          error |-> baseDatabase.error]
  ELSE IF currentDbId = 0
    THEN [database |-> baseDatabase.database, isTransacting |-> FALSE,
          error |-> NoError]
  ELSE IF currentDbId \notin transactionDatabases
    THEN [database |-> NoDatabase, isTransacting |-> FALSE,
          error |-> NoTransactionDatabaseError]
  ELSE [database |-> currentDbId, isTransacting |-> TRUE, error |-> NoError]

\* Variant of getCurrentDatabaseInfo that ignores the ambient transaction and
\* always returns the registered base database.
getCurrentDatabaseInfo_Base(s) ==
  [database |-> BaseDatabase, isTransacting |-> FALSE, error |-> NoError]
\* getCurrentDatabaseInfo() with the default name, evaluated with s as the
\* current store.
getCurrentDatabaseInfo(s) == getCurrentDatabaseInfoByName(s, "default")

\* The function-valued properties of a handle read through the proxy.
ProxyProps == {"insert", "select"}

\* No method: the get trap threw.
NoMethod == [prop |-> "", boundTo |-> NoDatabase]

\* value.bind(target) for value = target[prop].
BoundMethod(prop, target) == [prop |-> prop, boundTo |-> target]

\* The get trap of createTransactionalDatabaseProxy(name) for a property
\* that is a function, evaluated with s as the current store: the method
\* returned, the cache as the trap leaves it, or the error thrown by
\* getCurrentDatabaseInfo.  methodCache.get(target) is the Map of the
\* handle resolved by this access; its entry for prop, if any, is returned.
proxyGet(s, name, prop) ==
  LET dbInfo == getCurrentDatabaseInfoByName(s, name)
      target == dbInfo.database
      cached == {e \in methodCache : e.target = target /\ e.prop = prop}
      boundMethod == BoundMethod(prop, target)
  IN
  IF dbInfo.error # NoError
    THEN [method |-> NoMethod, cache |-> methodCache, error |-> dbInfo.error]
  ELSE IF cached # {}
    THEN [method |-> (CHOOSE e \in cached : TRUE).method,
          cache |-> methodCache, error |-> NoError]
  ELSE [method |-> boundMethod,
        cache |-> methodCache \cup
                    {[target |-> target, prop |-> prop, method |-> boundMethod]},
        error |-> NoError]

\* ------------------------------------------------------------ hooks/index.ts
\* new EventEmitter(): no listener.
NewEmitter == [commit |-> <<>>, rollback |-> <<>>, end |-> <<>>]

\* Variant of getTransactionalContextHook that returns whatever is stored
\* under the hook key of an active scope.
getTransactionalContextHook_Unchecked(s) ==
  IF ~hasActiveContext(s)
    THEN [emitter |-> 0, error |-> contextError("NO_CONTEXT")]
    ELSE [emitter |-> getContextValue(s, "hook"), error |-> NoError]

\* getTransactionalContextHook() evaluated with s as the current store:
\* the emitter, or the error thrown.
getTransactionalContextHook(s) ==
  IF ~hasActiveContext(s)
    THEN [emitter |-> 0, error |-> contextError("NO_CONTEXT")]
  ELSE IF getContextValue(s, "hook") = 0
    THEN [emitter |-> 0, error |-> contextError("NO_HOOK")]
  ELSE [emitter |-> getContextValue(s, "hook"), error |-> NoError]

\* ---------------------------------------------------------- storage/index.ts
\* Variant of isDrizzleTransactionalInitialized that always answers yes.
isDrizzleTransactionalInitialized_Always == TRUE
\* isDrizzleTransactionalInitialized()
isDrizzleTransactionalInitialized == initialized

\* ------------------------------------------------- decorators/transactional
\* The options argument of a decorator, reduced to its propagation field;
\* "undefined" when the argument or the field is omitted.
UndefinedOptions == "undefined"
DecoratorOptions == Propagation \cup {UndefinedOptions}

\* options?.propagation ?? Propagation.REQUIRED
PropagationOf(options) ==
  IF options = UndefinedOptions THEN "REQUIRED" ELSE options

\* A function value: its name property and the options of the wrappers that
\* wrapInTransaction has put around the user's method body, outermost first.
MethodNames == {"getStats", "unwrapperStats"}
OriginalMethod(name) == [name |-> name, layers |-> <<>>]

\* name.includes("wrapper"), on the names of the model
includesWrapper(name) == name \in {"wrapper", "unwrapperStats"}

\* wrapInTransaction(fn, options) returns its inner function "wrapper".
wrapInTransaction(fn, options) ==
  [name |-> "wrapper", layers |-> <<options>> \o fn.layers]

\* preserveMethodMetadata(originalMethod, newMethod): the new method as the
\* function leaves it, its name redefined to the original's.
preserveMethodMetadata(originalMethod, newMethod) ==
  IF originalMethod.name # ""
    THEN [newMethod EXCEPT !.name = originalMethod.name]
    ELSE newMethod

\* @Transactional(options) on a method (legacy decorator with descriptor):
\* the new descriptor.value.
Transactional(options, originalMethod) ==
  preserveMethodMetadata(originalMethod,
                         wrapInTransaction(originalMethod, options))

\* @TransactionalClass(options) (legacy path), for one method of the
\* prototype: the value the prototype holds afterwards.
TransactionalClass(options, originalMethod) ==
  IF includesWrapper(originalMethod.name)
    THEN originalMethod
    ELSE preserveMethodMetadata(originalMethod,
                                wrapInTransaction(originalMethod, options))

\* No class has been declared.
NoClass ==
  [method |-> OriginalMethod(""), decorated |-> FALSE,
   methodOptions |-> UndefinedOptions, classOptions |-> UndefinedOptions]

\* ------------------------------------------------------------------- state
NCalls == Len(calls)
CallIds == 1..NCalls

\* No API call has been made from outside yet.
NoResult ==
  [op |-> "none", name |-> "", database |-> NoDatabase,
   isTransacting |-> FALSE, error |-> NoError]

\* The engine as the application sets it up at start:
\* initializeDrizzleTransactionalContext() has been called and one database
\* is registered under the default name; no wrapped function has been called.
Init ==
  /\ calls = <<>>
  /\ stores = <<>>
  /\ emitters = <<>>
  /\ listeners = <<>>
  /\ invoked = <<>>
  /\ transactionDatabases = {}
  /\ txState = <<>>
  /\ writes = {}
  /\ initialized = TRUE
  /\ registeredDatabases = ("default" :> BaseDatabase)
  /\ outside = NoResult
  /\ prototype = NoClass
  /\ methodCache = {}

\* Number of calls and registrations the user program has made so far.
NOps == NCalls + Len(listeners)

\* A call record.  floating: the caller does not await the promise (a call
\* from outside, or one left running beside the caller's later steps);
\* strategy is the closure the propagation handler chose; scope is the store
\* in which executeWithPropagation ran; store is the store in which the body
\* (fn) runs; fnResult/fnError is how fn settled; result/error is how the
\* wrapper's promise settled.
NewCall(p, floating, propagation, strategy, scope, store, pc, result, error) ==
  [parent |-> p, floating |-> floating,
   propagation |-> propagation, strategy |-> strategy,
   scope |-> scope, store |-> store, pc |-> pc,
   fnResult |-> "none", fnError |-> NoError,
   result |-> result, error |-> error,
   databaseName |-> "default"]

\* The nested call whose promise fn of call c is awaiting.
AwaitedCall(c) ==
  LET ds == {d \in CallIds : calls[d].parent = c /\ ~calls[d].floating} IN
  CHOOSE d \in ds : \A e \in ds : e <= d

\* createEventEmitterInContext() for call c with s as the current store:
\* setContextValue(HOOK_CONTEXT_KEY, emitter) mutates the Map s in place.
createEventEmitterInContext(st, s, c) == [st EXCEPT ![s].hook = c]

\* Variant of OutsideStore in which the Map entered by a call from outside
\* stays the current store of the caller (enterWith instead of run).
OutsideStore_Entered ==
  LET entered == {s \in DOMAIN stores : \E c \in CallIds : s = TopStore(c)} IN
  IF entered = {} THEN 0 ELSE CHOOSE s \in entered : TRUE
\* asyncLocalStorage.getStore() in code that runs outside every wrapped
\* function: undefined (0), since every Map is entered with
\* asyncLocalStorage.run(store, fn), which restores the caller's store when
\* fn returns or throws.
OutsideStore == 0

\* The wrapper function returned by wrapInTransaction, up to its first
\* suspension point, called from the body of p (p = 0: from outside).
wrapperOn(p, propagation, float, databaseName) ==
  /\ LET c == NCalls + 1
         callerStore == IF p = 0 THEN OutsideStore ELSE calls[p].store
         fresh == ~hasActiveContext(callerStore)
         scope == IF fresh THEN TopStore(c) ELSE callerStore
         stores0 == IF fresh THEN (scope :> EmptyMap) @@ stores ELSE stores
         currentTransaction == stores0[scope].tx = "true"
         strategy == executeWithPropagation(propagation, currentTransaction)
         errorType == IF propagation \in {"MANDATORY", "NEVER"}
                        THEN propagation ELSE "UNKNOWN"
         \* the caller awaits the promise at once unless it lets it float
         called == IF float THEN calls ELSE [calls EXCEPT ![p].pc = "awaiting"]
         Declared(call) == [call EXCEPT !.databaseName = databaseName]
         \* runInDatabaseTransaction looks the base database up first
         baseDatabase == getDrizzleDatabaseByName(databaseName)
     IN
       \* an exception thrown by the wrapper itself reaches the caller at once
       /\ (p # 0 /\ float) => strategy # "throw"
       /\ CASE ~isDrizzleTransactionalInitialized ->
                 /\ calls' = Append(called, Declared(
                      NewCall(p, float, propagation, "throw", 0, 0,
                              "done", "err", notInitialized)))
                 /\ UNCHANGED <<stores, emitters>>
            [] isDrizzleTransactionalInitialized /\ strategy = "throw" ->
                 /\ calls' = Append(called, Declared(
                      NewCall(p, float, propagation, strategy, 0, 0,
                              "done", "err", propagationError(errorType))))
                 /\ UNCHANGED <<stores, emitters>>
            [] isDrizzleTransactionalInitialized /\ strategy = "runOriginal" ->
                 /\ calls' = Append(called, Declared(
                      NewCall(p, float, propagation, strategy, scope, scope,
                              "body", "none", NoError)))
                 /\ stores' = stores0
                 /\ UNCHANGED emitters
            [] isDrizzleTransactionalInitialized /\ strategy = "runWithNewHook" ->
                 /\ calls' = Append(called, Declared(
                      NewCall(p, float, propagation, strategy, scope, scope,
                              "body", "none", NoError)))
                 /\ stores' = createEventEmitterInContext(stores0, scope, c)
                 /\ emitters' = (c :> NewEmitter) @@ emitters
            [] isDrizzleTransactionalInitialized /\ strategy = "suspend" ->
                 /\ calls' = Append(called, Declared(
                      NewCall(p, float, propagation, strategy, scope,
                              InnerStore(c), "body", "none", NoError)))
                 /\ stores' = createEventEmitterInContext(
                      (InnerStore(c) :>
                         runWithContext(stores0[scope], "tx", "false"))
                        @@ stores0, InnerStore(c), c)
                 /\ emitters' = (c :> NewEmitter) @@ emitters
            [] isDrizzleTransactionalInitialized /\ strategy = "runWithNewTransaction"
                 /\ baseDatabase.error = NoError ->
                 /\ calls' = Append(called, Declared(
                      NewCall(p, float, propagation, strategy, scope, 0,
                              "begin", "none", NoError)))
                 /\ stores' = createEventEmitterInContext(stores0, scope, c)
                 /\ emitters' = (c :> NewEmitter) @@ emitters
            [] isDrizzleTransactionalInitialized /\ strategy = "runWithNewTransaction"
                 /\ baseDatabase.error # NoError ->
                 \* runInDatabaseTransaction rejects before it begins, and
                 \* runAndTriggerHooks fires the emitter just created
                 /\ calls' = Append(called, Declared(
                      NewCall(p, float, propagation, strategy, scope, 0,
                              "done", "err", baseDatabase.error)))
                 /\ stores' = createEventEmitterInContext(stores0, scope, c)
                 /\ emitters' = (c :> NewEmitter) @@ emitters
  /\ UNCHANGED <<listeners, invoked, transactionDatabases, txState, writes,
                 setup>>

\* The wrapper of a function wrapped without a databaseName option:
\* options?.databaseName ?? "default".
wrapper(p, propagation, float) == wrapperOn(p, propagation, float, "default")

\* A call of a wrapped function, from outside (p = 0) or from the body of
\* call p, within the bounds of the model.
Wrapper(p, propagation, float) ==
  /\ NCalls < MaxCalls
  /\ NOps < MaxOps
  /\ \/ /\ p = 0
        /\ float
        /\ Cardinality({d \in CallIds : calls[d].parent = 0}) < MaxTop
     \/ /\ p \in CallIds
        /\ calls[p].pc = "body"
        /\ float =>
             Cardinality({d \in CallIds : calls[d].parent # 0
                                           /\ calls[d].floating}) < MaxFloating
  /\ wrapper(p, propagation, float)

\* baseDatabase.transaction() has begun transaction c and calls
\* transactionRunner(tx): the handle is stored under the transaction id and
\* fn starts in runWithContext({dbId}, () => runWithContext({tx: true}, fn)).
TransactionRunner(c) ==
  /\ c \in CallIds
  /\ calls[c].pc = "begin"
  /\ txState' = (c :> "open") @@ txState
  /\ transactionDatabases' = transactionDatabases \cup {c}
  /\ stores' = (InnerStore(c) :>
                  runWithContext(
                    runWithContext(stores[calls[c].scope], "dbId", c),
                    "tx", "true")) @@ stores
  /\ calls' = [calls EXCEPT ![c].pc = "body", ![c].store = InnerStore(c)]
  /\ UNCHANGED <<emitters, listeners, invoked, writes, setup>>

\* Index of the first listener of ls that throws, 0 when none does.
FirstThrowing(ls) ==
  IF \E i \in 1..Len(ls) : listeners[ls[i]].throws
    THEN CHOOSE i \in 1..Len(ls) :
           /\ listeners[ls[i]].throws
           /\ \A j \in 1..(i - 1) : ~listeners[ls[j]].throws
    ELSE 0

\* EventEmitter.emit(kind, arg) on the once-listeners ls, during the settle of
\* call c: the listeners are called in order, each is removed before it is
\* called, and the first exception leaves emit, the later listeners uncalled
\* and still attached.
emit(ls, kind, arg, c) ==
  LET k == FirstThrowing(ls)
      n == IF k = 0 THEN Len(ls) ELSE k
  IN [log |-> [i \in 1..n |-> [listener |-> ls[i], kind |-> kind,
                                arg |-> arg, during |-> c]],
      rest |-> SubSeq(ls, n + 1, Len(ls)),
      threw |-> IF k = 0 THEN NoError ELSE ListenerError(ls[k])]

\* The catch block of runAndTriggerHooks for emitter value em, reached with
\* error err after the invocations log.
CatchBlock(em, err, log, c) ==
  LET r == emit(em.rollback, "rollback", err, c) IN
  IF r.threw # NoError
    THEN [log |-> log \o r.log, em |-> [em EXCEPT !.rollback = r.rest],
          result |-> "err", error |-> r.threw]
  ELSE LET e == emit(em.end, "end", err, c) IN
       IF e.threw # NoError
         THEN [log |-> log \o r.log \o e.log,
               em |-> [em EXCEPT !.rollback = <<>>, !.end = e.rest],
               result |-> "err", error |-> e.threw]
         ELSE [log |-> log \o r.log \o e.log, em |-> NewEmitter,
               result |-> "err", error |-> err]

\* The try block of runAndTriggerHooks once the callback has resolved.
TryBlock(em, c) ==
  LET r == emit(em.commit, "commit", NoError, c) IN
  IF r.threw # NoError
    THEN CatchBlock([em EXCEPT !.commit = r.rest], r.threw, r.log, c)
  ELSE LET e == emit(em.end, "end", NoError, c) IN
       IF e.threw # NoError
         THEN CatchBlock([em EXCEPT !.commit = <<>>, !.end = e.rest],
                         e.threw, r.log \o e.log, c)
         ELSE [log |-> r.log \o e.log, em |-> NewEmitter,
               result |-> "ok", error |-> NoError]

\* runAndTriggerHooks(hook, callback) once callback has settled with res/err,
\* for the emitter value em of call c: the listener invocations, the emitter
\* afterwards and the way the wrapper's promise settles.
runAndTriggerHooks(em, res, err, c) ==
  IF res = "ok" THEN TryBlock(em, c) ELSE CatchBlock(em, err, <<>>, c)

\* Variant of transactionRunnerFinally that cleans up only when the callback
\* resolved.
transactionRunnerFinally_OnSuccess(registry, transactionId, res) ==
  IF res = "ok" THEN registry \ {transactionId} ELSE registry
\* The finally block of transactionRunner, run whether the callback resolved
\* or rejected (res): transactionDatabases.delete(transactionId).
transactionRunnerFinally(registry, transactionId, res) ==
  registry \ {transactionId}

\* fn of call c has settled with res/err; cs is calls with the changes the
\* settling step has already made.  What runs next, up to the next database
\* round trip, depends on the closure fn runs in:
\*   runOriginal            the wrapper's promise is fn's;
\*   runWithNewTransaction  the finally block of transactionRunner removes the
\*                          handle, then COMMIT or ROLLBACK is sent;
\*   runWithNewHook         runAndTriggerHooks fires the hooks.
SettleFn(cs, c, res, err) ==
  CASE cs[c].strategy = "runOriginal" ->
         /\ calls' = [cs EXCEPT ![c].fnResult = res, ![c].fnError = err,
                                ![c].pc = "done",
                                ![c].result = res, ![c].error = err]
         /\ UNCHANGED <<emitters, invoked, transactionDatabases>>
    [] cs[c].strategy = "runWithNewTransaction" ->
         /\ calls' = [cs EXCEPT ![c].fnResult = res, ![c].fnError = err,
                                ![c].pc = "ending"]
         /\ transactionDatabases' =
              transactionRunnerFinally(transactionDatabases, c, res)
         /\ UNCHANGED <<emitters, invoked>>
    [] OTHER ->
         LET t == runAndTriggerHooks(emitters[c], res, err, c) IN
         /\ calls' = [cs EXCEPT ![c].fnResult = res, ![c].fnError = err,
                                ![c].pc = "done",
                                ![c].result = t.result, ![c].error = t.error]
         /\ emitters' = [emitters EXCEPT ![c] = t.em]
         /\ invoked' = invoked \o t.log
         /\ UNCHANGED transactionDatabases

\* fn of call c issues a write through the proxy
\* (createTransactionalDatabaseProxy get trap -> getCurrentDatabaseInfo).
Write(c) ==
  /\ c \in CallIds
  /\ calls[c].pc = "body"
  /\ \A w \in writes : w.by # c
  /\ LET dbInfo == getCurrentDatabaseInfo(calls[c].store) IN
       IF dbInfo.error # NoError
         THEN /\ SettleFn(calls, c, "err", dbInfo.error)
              /\ UNCHANGED writes
         ELSE /\ writes' = writes \cup {[by |-> c, via |-> dbInfo.database]}
              /\ UNCHANGED <<calls, emitters, invoked, transactionDatabases>>
  /\ UNCHANGED <<stores, listeners, txState, setup>>

\* runOnTransactionCommit / runOnTransactionRollback /
\* runOnTransactionComplete called by fn of call c with a callback that
\* throws or not.
runOnTransaction(c, kind, throws) ==
  /\ c \in CallIds
  /\ calls[c].pc = "body"
  /\ LET h == getTransactionalContextHook(calls[c].store)
         l == Len(listeners) + 1
     IN
       IF h.error # NoError
         THEN /\ SettleFn(calls, c, "err", h.error)
              /\ UNCHANGED listeners
         ELSE /\ listeners' = Append(listeners,
                   [kind |-> kind, by |-> c, throws |-> throws,
                    emitter |-> h.emitter])
              /\ emitters' = [emitters EXCEPT ![h.emitter][kind] = Append(@, l)]
              /\ UNCHANGED <<calls, invoked, transactionDatabases>>
  /\ UNCHANGED <<stores, txState, writes, setup>>

\* fn of call c registers a listener, within the bounds of the model.
RunOnTransaction(c, kind, throws) ==
  /\ Len(listeners) < MaxListeners
  /\ NOps < MaxOps
  /\ runOnTransaction(c, kind, throws)

\* fn of call c awaits the promise of its nested call d, which has settled;
\* a rejection is either caught by fn or makes fn throw the same error.
AwaitCall(c, rethrow) ==
  /\ c \in CallIds
  /\ calls[c].pc = "awaiting"
  /\ calls[AwaitedCall(c)].pc = "done"
  /\ rethrow => calls[AwaitedCall(c)].result = "err"
  /\ LET d == AwaitedCall(c)
         cs == [calls EXCEPT ![c].pc = "body"]
     IN
       IF rethrow
         THEN SettleFn(cs, c, "err", calls[d].error)
         ELSE /\ calls' = cs
              /\ UNCHANGED <<emitters, invoked, transactionDatabases>>
  /\ UNCHANGED <<stores, listeners, txState, writes, setup>>

\* fn of call c returns.
FnReturn(c) ==
  /\ c \in CallIds
  /\ calls[c].pc = "body"
  /\ SettleFn(calls, c, "ok", NoError)
  /\ UNCHANGED <<stores, listeners, txState, writes, setup>>

\* fn of call c throws an error of its own.
FnThrow(c) ==
  /\ c \in CallIds
  /\ calls[c].pc = "body"
  /\ SettleFn(calls, c, "err", UserError(c))
  /\ UNCHANGED <<stores, listeners, txState, writes, setup>>

\* Variant of transactionOutcome that commits whatever transactionRunner did.
transactionOutcome_AlwaysCommit(res) == "committed"
\* Variant of transactionOutcome that sends nothing when transactionRunner
\* rejected.
transactionOutcome_LeftOpen(res) == IF res = "ok" THEN "committed" ELSE "open"
\* What baseDatabase.transaction(transactionRunner) does with the transaction
\* when the promise of transactionRunner has settled with res.
transactionOutcome(res) == IF res = "ok" THEN "committed" ELSE "rolledBack"

\* baseDatabase.transaction() ends transaction c: COMMIT when
\* transactionRunner resolved, ROLLBACK (and the same rejection) otherwise;
\* runInDatabaseTransaction settles the same way and runAndTriggerHooks
\* fires the hooks.
TransactionEnd(c) ==
  /\ c \in CallIds
  /\ calls[c].pc = "ending"
  /\ txState' = [txState EXCEPT ![c] = transactionOutcome(calls[c].fnResult)]
  /\ LET t == runAndTriggerHooks(emitters[c], calls[c].fnResult,
                                 calls[c].fnError, c) IN
       /\ calls' = [calls EXCEPT ![c].pc = "done", ![c].result = t.result,
                                 ![c].error = t.error]
       /\ emitters' = [emitters EXCEPT ![c] = t.em]
       /\ invoked' = invoked \o t.log
  /\ UNCHANGED <<stores, listeners, transactionDatabases, writes, setup>>

\* baseDatabase.transaction() fails to begin transaction c: transactionRunner
\* is never called, runInDatabaseTransaction rejects with the driver's error
\* and runAndTriggerHooks runs its catch block.
TransactionBeginFails(c) ==
  /\ c \in CallIds
  /\ calls[c].pc = "begin"
  /\ LET t == runAndTriggerHooks(emitters[c], "err", BeginError(c), c) IN
       /\ calls' = [calls EXCEPT ![c].pc = "done", ![c].result = t.result,
                                 ![c].error = t.error]
       /\ emitters' = [emitters EXCEPT ![c] = t.em]
       /\ invoked' = invoked \o t.log
  /\ UNCHANGED <<stores, listeners, transactionDatabases, txState, writes,
                 setup>>

Next ==
  \/ \E p \in 0..MaxCalls, propagation \in DeclaredPropagation,
          float \in BOOLEAN :
       Wrapper(p, propagation, float)
  \/ \E c \in 1..MaxCalls : TransactionRunner(c)
  \/ \E c \in 1..MaxCalls : TransactionBeginFails(c)
  \/ \E c \in 1..MaxCalls : Write(c)
  \/ \E c \in 1..MaxCalls, kind \in HookKinds, throws \in BOOLEAN :
       RunOnTransaction(c, kind, throws)
  \/ \E c \in 1..MaxCalls, rethrow \in BOOLEAN : AwaitCall(c, rethrow)
  \/ \E c \in 1..MaxCalls : FnReturn(c)
  \/ \E c \in 1..MaxCalls : FnThrow(c)
  \/ \E c \in 1..MaxCalls : TransactionEnd(c)

Spec == Init /\ [][Next]_vars

\* What call c does next without a decision of the user program being
\* needed: its fn settles, the promise it awaits is delivered, or the driver
\* answers begin, commit or rollback.
Progress(c) ==
  \/ FnReturn(c)
  \/ FnThrow(c)
  \/ \E rethrow \in BOOLEAN : AwaitCall(c, rethrow)
  \/ TransactionRunner(c)
  \/ TransactionBeginFails(c)
  \/ TransactionEnd(c)

\* The program under the assumption that every wrapped function and every
\* driver call terminates.
SpecTerminating ==
  Init /\ [][Next]_vars /\ \A c \in 1..MaxCalls : WF_vars(Progress(c))


\* ----------------------------------------------------- setting the engine up
\* The application starts with the modules just loaded, sets the engine up
\* and calls wrapped functions, and outside any wrapped function it resolves
\* database handles and tries to register hooks.
MaxSetupCalls == 2       \* calls of wrapped functions made from outside
MaxSetupListeners == 1   \* callbacks registered by their bodies

\* The state of the modules when loaded (storage/index.ts data,
\* database-manager.ts registeredDatabases and transactionDatabases).
InitSetup ==
  /\ calls = <<>>
  /\ stores = <<>>
  /\ emitters = <<>>
  /\ listeners = <<>>
  /\ invoked = <<>>
  /\ transactionDatabases = {}
  /\ txState = <<>>
  /\ writes = {}
  /\ initialized = FALSE
  /\ registeredDatabases = <<>>
  /\ outside = NoResult
  /\ prototype = NoClass
  /\ methodCache = {}

\* the error thrown by initializeDrizzleTransactionalContext for bad options
InvalidOptionsError == [code |-> "INVALID_OPTIONS", n |-> 0]

engine == <<calls, stores, emitters, listeners, invoked,
            transactionDatabases, txState, writes>>

\* How an API call that yields no handle returned or threw.
Returned(op, name, error) ==
  [op |-> op, name |-> name, database |-> NoDatabase,
   isTransacting |-> FALSE, error |-> error]

\* initializeDrizzleTransactionalContext(options), the options valid or not.
initializeDrizzleTransactionalContext(valid) ==
  /\ IF valid
       THEN /\ initialized' = TRUE
            /\ outside' = Returned("initialize", "", NoError)
       ELSE /\ initialized' = initialized
            /\ outside' = Returned("initialize", "", InvalidOptionsError)
  /\ UNCHANGED <<engine, registeredDatabases, prototype, methodCache>>

\* Variant of addTransactionalDrizzleDatabase that binds the name without
\* looking whether it is bound already.
addTransactionalDrizzleDatabase_Overwrite(database, name) ==
  /\ registeredDatabases' =
       [n \in DOMAIN registeredDatabases \cup {name} |->
          IF n = name THEN database ELSE registeredDatabases[n]]
  /\ outside' = [Returned("add", name, NoError) EXCEPT !.database = database]
  /\ UNCHANGED <<engine, initialized, prototype, methodCache>>
\* addTransactionalDrizzleDatabase(database, name)
addTransactionalDrizzleDatabase(database, name) ==
  /\ IF name \in DOMAIN registeredDatabases
       THEN /\ registeredDatabases' = registeredDatabases
            /\ outside' = [Returned("add", name, AlreadyRegisteredError)
                             EXCEPT !.database = database]
       ELSE /\ registeredDatabases' = (name :> database) @@ registeredDatabases
            /\ outside' = [Returned("add", name, NoError)
                             EXCEPT !.database = database]
  /\ UNCHANGED <<engine, initialized, prototype, methodCache>>

\* getCurrentDatabaseInfo(name) called outside any wrapped function.
ResolveOutside(name) ==
  /\ LET dbInfo == getCurrentDatabaseInfoByName(OutsideStore, name) IN
       outside' = [op |-> "resolve", name |-> name,
                   database |-> dbInfo.database,
                   isTransacting |-> dbInfo.isTransacting,
                   error |-> dbInfo.error]
  /\ UNCHANGED <<engine, initialized, registeredDatabases, prototype, methodCache>>

\* runOnTransactionCommit / Rollback / Complete called outside any wrapped
\* function: getTransactionalContextHook() throws before once() is reached.
RunOnTransactionOutside(kind) ==
  /\ getTransactionalContextHook(OutsideStore).error # NoError
  /\ outside' = Returned("on", kind,
                         getTransactionalContextHook(OutsideStore).error)
  /\ UNCHANGED <<engine, initialized, registeredDatabases, prototype, methodCache>>

\* A wrapped function is called from outside.
SetupWrapper(propagation) ==
  /\ NCalls < MaxSetupCalls
  /\ wrapper(0, propagation, TRUE)

\* fn of call c registers a listener.
SetupRunOnTransaction(c, kind) ==
  /\ Len(listeners) < MaxSetupListeners
  /\ runOnTransaction(c, kind, FALSE)

NextSetup ==
  \/ \E valid \in BOOLEAN : initializeDrizzleTransactionalContext(valid)
  \/ \E database \in {BaseDatabase, OtherDatabase}, name \in DatabaseNames :
       addTransactionalDrizzleDatabase(database, name)
  \/ \E name \in DatabaseNames : ResolveOutside(name)
  \/ \E kind \in HookKinds : RunOnTransactionOutside(kind)
  \/ \E propagation \in DeclaredPropagation : SetupWrapper(propagation)
  \/ \E c \in 1..MaxSetupCalls : TransactionRunner(c)
  \/ \E c \in 1..MaxSetupCalls, kind \in HookKinds :
       SetupRunOnTransaction(c, kind)
  \/ \E c \in 1..MaxSetupCalls : FnReturn(c)
  \/ \E c \in 1..MaxSetupCalls : TransactionEnd(c)

SpecSetup == InitSetup /\ [][NextSetup]_vars


\* ------------------------------------------------------- decorated classes
\* The application declares a class under @TransactionalClass(classOptions)
\* with one method, decorated with @Transactional(methodOptions) or not, and
\* calls the method from outside.
MaxInvocations == 1   \* calls of the method made from outside

\* A method is wrapped at most twice: by its own decorator and by the
\* decorator of its class.
MaxLayers == 2
DecoratedCallIds == 1..(MaxInvocations * MaxLayers)

\* The class as declared: method decorators are applied before the class
\* decorator.
DeclaredClass(name, decorated, methodOptions, classOptions) ==
  [method |-> TransactionalClass(classOptions,
                IF decorated
                  THEN Transactional(methodOptions, OriginalMethod(name))
                  ELSE OriginalMethod(name)),
   decorated |-> decorated,
   methodOptions |-> methodOptions,
   classOptions |-> classOptions]

InitDecorated ==
  /\ calls = <<>>
  /\ stores = <<>>
  /\ emitters = <<>>
  /\ listeners = <<>>
  /\ invoked = <<>>
  /\ transactionDatabases = {}
  /\ txState = <<>>
  /\ writes = {}
  /\ initialized = TRUE
  /\ registeredDatabases = ("default" :> BaseDatabase)
  /\ outside = NoResult
  /\ methodCache = {}
  /\ \E name \in MethodNames, classOptions \in DecoratorOptions :
       \/ prototype = DeclaredClass(name, FALSE, UndefinedOptions, classOptions)
       \/ \E methodOptions \in DecoratorOptions :
            prototype = DeclaredClass(name, TRUE, methodOptions, classOptions)

\* The wrappers of the method, outermost first.
Layers == prototype.method.layers

\* The wrapper that call c is an invocation of: 1 for the call made from
\* outside, one more for each wrapper that invoked the next as its fn.
RECURSIVE Layer(_)
Layer(c) == IF calls[c].parent = 0 THEN 1 ELSE Layer(calls[c].parent) + 1

\* The method is called from outside: its outermost wrapper runs.
InvokeMethod ==
  /\ Len(Layers) > 0
  /\ Cardinality({d \in CallIds : calls[d].parent = 0}) < MaxInvocations
  /\ wrapper(0, PropagationOf(Layers[1]), TRUE)

\* The fn of call c is the next wrapper: runOriginal() invokes it.
InvokeWrappedFn(c) ==
  /\ c \in CallIds
  /\ calls[c].pc = "body"
  /\ Layer(c) < Len(Layers)
  /\ \A d \in CallIds : calls[d].parent # c
  /\ wrapper(c, PropagationOf(Layers[Layer(c) + 1]), FALSE)

\* The fn of call c is the next wrapper and the promise it returned has
\* settled: fn settles the same way.
WrappedFnSettles(c) ==
  /\ c \in CallIds
  /\ calls[c].pc = "awaiting"
  /\ calls[AwaitedCall(c)].pc = "done"
  /\ LET d == AwaitedCall(c) IN
       SettleFn([calls EXCEPT ![c].pc = "body"], c,
                calls[d].result, calls[d].error)
  /\ UNCHANGED <<stores, listeners, txState, writes, setup>>

\* The fn of call c is the body of the method.
RunsMethodBody(c) ==
  /\ c \in CallIds
  /\ Layer(c) = Len(Layers)

\* The body of the method writes, returns or throws.
MethodBodyWrites(c) == RunsMethodBody(c) /\ Write(c)
MethodBodyReturns(c) == RunsMethodBody(c) /\ FnReturn(c)
MethodBodyThrows(c) == RunsMethodBody(c) /\ FnThrow(c)

NextDecorated ==
  \/ InvokeMethod
  \/ \E c \in DecoratedCallIds : InvokeWrappedFn(c)
  \/ \E c \in DecoratedCallIds : WrappedFnSettles(c)
  \/ \E c \in DecoratedCallIds : TransactionRunner(c)
  \/ \E c \in DecoratedCallIds : MethodBodyWrites(c)
  \/ \E c \in DecoratedCallIds : MethodBodyReturns(c)
  \/ \E c \in DecoratedCallIds : MethodBodyThrows(c)
  \/ \E c \in DecoratedCallIds : TransactionEnd(c)

SpecDecorated == InitDecorated /\ [][NextDecorated]_vars


\* ------------------------------------------------------ several databases
\* The application has registered its databases and calls functions wrapped
\* with a databaseName option, from outside and from one another.
MaxDatabaseCalls == 2   \* calls of wrapped functions

DatabaseCallIds == 1..MaxDatabaseCalls

InitDatabases ==
  /\ calls = <<>>
  /\ stores = <<>>
  /\ emitters = <<>>
  /\ listeners = <<>>
  /\ invoked = <<>>
  /\ transactionDatabases = {}
  /\ txState = <<>>
  /\ writes = {}
  /\ initialized = TRUE
  /\ registeredDatabases \in
       {("default" :> BaseDatabase),
        ("other" :> OtherDatabase),
        ("default" :> BaseDatabase) @@ ("other" :> OtherDatabase)}
  /\ outside = NoResult
  /\ prototype = NoClass
  /\ methodCache = {}

\* A function wrapped with {propagation, databaseName} is called from
\* outside, or from the body of call p, which awaits it.
DatabaseWrapper(p, propagation, databaseName) ==
  /\ NCalls < MaxDatabaseCalls
  /\ p # 0 => (p \in CallIds /\ calls[p].pc = "body")
  /\ wrapperOn(p, propagation, p = 0, databaseName)

NextDatabases ==
  \/ \E p \in 0..MaxDatabaseCalls, propagation \in Propagation,
        databaseName \in DatabaseNames :
       DatabaseWrapper(p, propagation, databaseName)
  \/ \E c \in DatabaseCallIds : TransactionRunner(c)
  \/ \E c \in DatabaseCallIds, rethrow \in BOOLEAN : AwaitCall(c, rethrow)
  \/ \E c \in DatabaseCallIds : FnReturn(c)
  \/ \E c \in DatabaseCallIds : FnThrow(c)
  \/ \E c \in DatabaseCallIds : TransactionEnd(c)

SpecDatabases == InitDatabases /\ [][NextDatabases]_vars

\* ------------------------------------------------------------- properties
\* The call made from outside from which call c descends.
RECURSIVE Root(_)
Root(c) == IF calls[c].parent = 0 THEN c ELSE Root(calls[c].parent)

\* fn of call c has started and not settled.
Running(c) == calls[c].pc \in {"body", "awaiting"}

\* The ambient "in transaction" flag the engine read when call c was made.
AmbientTransaction(c) ==
  /\ calls[c].parent # 0
  /\ stores[calls[calls[c].parent].store].tx = "true"

\* What resolve() returns to fn of call c.
Resolve(c) == getCurrentDatabaseInfo(calls[c].store)

TransactionHandle(t) ==
  [database |-> t, isTransacting |-> TRUE, error |-> NoError]

BaseHandle ==
  [database |-> BaseDatabase, isTransacting |-> FALSE, error |-> NoError]

\* A write is observable once made through the base handle, or through a
\* transaction that has committed.
Persisted(w) == w.via = BaseDatabase \/ txState[w.via] = "committed"

WritesBy(c) == {w \in writes : w.by = c}

\* Number of times listener l has been invoked.
Invocations(l) == Cardinality({i \in DOMAIN invoked : invoked[i].listener = l})

\* C1: with calls from outside interleaved, resolve() in an operation that
\* opened its own transaction returns the handle of that transaction at every
\* point of its body, and no operation ever gets a transaction handle opened
\* by a call tree other than its own.
C1_ResolveOwnTransaction ==
  \A c \in CallIds :
    Running(c) =>
      /\ (calls[c].parent = 0 /\ calls[c].strategy = "runWithNewTransaction")
           => Resolve(c) = TransactionHandle(c)
      /\ Resolve(c).isTransacting => Root(Resolve(c).database) = Root(c)

\* Two calls from outside are in their bodies at once, each in a transaction
\* of its own, and each has written.
C1_Witness ==
  \E c, d \in CallIds :
    /\ c # d
    /\ calls[c].parent = 0 /\ calls[d].parent = 0
    /\ calls[c].pc = "body" /\ calls[d].pc = "body"
    /\ c \in transactionDatabases /\ d \in transactionDatabases
    /\ WritesBy(c) # {} /\ WritesBy(d) # {}

\* Call c and all the calls it descends from are declared REQUIRED.
RECURSIVE RequiredChain(_)
RequiredChain(c) ==
  /\ calls[c].propagation = "REQUIRED"
  /\ calls[c].parent # 0 => RequiredChain(calls[c].parent)

\* C2: in a tree of REQUIRED calls started from outside, only the outermost
\* call begins a transaction; every inner call joins it, runs in the same
\* scope and resolves to the outer call's transaction handle.
C2_NestedRequiredJoins ==
  \A c \in CallIds :
    RequiredChain(c) =>
      IF calls[c].parent = 0
        THEN calls[c].strategy = "runWithNewTransaction"
        ELSE /\ calls[c].strategy = "runOriginal"
             /\ c \notin DOMAIN txState
             /\ calls[c].store = calls[Root(c)].store
             /\ (Running(c) /\ Running(Root(c)))
                  => Resolve(c) = TransactionHandle(Root(c))

\* An inner REQUIRED call is in its body inside the outer REQUIRED call's
\* transaction, the only one begun.
C2_Witness ==
  \E c \in CallIds :
    /\ RequiredChain(c)
    /\ calls[c].parent # 0
    /\ calls[c].pc = "body"
    /\ calls[calls[c].parent].pc = "awaiting"
    /\ DOMAIN txState = {Root(c)}

\* C3: a REQUIRES_NEW operation invoked inside a transaction begins a second
\* transaction of its own, and resolve() in its body returns that second
\* handle, not the outer one.
C3_RequiresNewOpensSecond ==
  \A c \in CallIds :
    (calls[c].propagation = "REQUIRES_NEW" /\ AmbientTransaction(c)
       /\ calls[c].pc = "body" /\ calls[calls[c].parent].pc = "awaiting")
    => /\ c \in DOMAIN txState
       /\ Resolve(c) = TransactionHandle(c)
       /\ Resolve(c) # Resolve(calls[c].parent)

\* C4: the outer operation runs in its transaction, its REQUIRES_NEW inner
\* operation writes and fails, the outer one catches that and succeeds: the
\* outer write is persisted and the inner write is not.
C4_InnerFailureIndependent ==
  \A c \in CallIds :
    LET p == calls[c].parent IN
    (calls[c].propagation = "REQUIRES_NEW" /\ AmbientTransaction(c)
       /\ calls[p].strategy = "runWithNewTransaction"
       /\ ~calls[c].floating
       /\ WritesBy(c) # {} /\ WritesBy(p) # {}
       /\ calls[c].pc = "done" /\ calls[c].result = "err"
       /\ calls[p].pc = "done" /\ calls[p].result = "ok")
    => /\ \A w \in WritesBy(p) : Persisted(w)
       /\ \A w \in WritesBy(c) : ~Persisted(w)

\* C5: the outer operation runs in its transaction, its REQUIRES_NEW inner
\* operation writes and succeeds, the outer one fails afterwards: the outer
\* write is rolled back and the inner write stays persisted.
C5_OuterFailureIndependent ==
  \A c \in CallIds :
    LET p == calls[c].parent IN
    (calls[c].propagation = "REQUIRES_NEW" /\ AmbientTransaction(c)
       /\ calls[p].strategy = "runWithNewTransaction"
       /\ ~calls[c].floating
       /\ WritesBy(c) # {} /\ WritesBy(p) # {}
       /\ calls[c].pc = "done" /\ calls[c].result = "ok"
       /\ calls[p].pc = "done" /\ calls[p].fnResult = "err")
    => /\ \A w \in WritesBy(p) : ~Persisted(w)
       /\ \A w \in WritesBy(c) : Persisted(w)

\* C6: a NOT_SUPPORTED operation invoked inside a transaction runs with the
\* transaction suspended: resolve() in its body returns the base handle with
\* "is transacting" false, its writes go outside the outer transaction, and
\* once it has returned the outer operation resolves to its transaction again.
C6_NotSupportedSuspends ==
  \A c \in CallIds :
    LET p == calls[c].parent IN
    (calls[c].propagation = "NOT_SUPPORTED" /\ AmbientTransaction(c)
       /\ ~calls[c].floating /\ calls[p].strategy = "runWithNewTransaction")
    => /\ (calls[c].pc = "body" /\ calls[p].pc = "awaiting")
            => Resolve(c) = BaseHandle
       /\ \A w \in WritesBy(c) : w.via = BaseDatabase
       /\ (calls[c].pc = "done" /\ calls[p].pc = "body")
            => Resolve(p) = TransactionHandle(p)

\* Call c was rejected by its propagation handler with the given code: fn was
\* never invoked, no transaction was begun, no emitter was created and
\* nothing was written.
Rejected(c, code) ==
  /\ calls[c].pc = "done"
  /\ calls[c].result = "err"
  /\ calls[c].error = [code |-> code, n |-> 0]
  /\ calls[c].fnResult = "none"
  /\ calls[c].store = 0
  /\ c \notin DOMAIN txState
  /\ c \notin DOMAIN emitters
  /\ WritesBy(c) = {}

\* C7: a MANDATORY operation invoked with no ambient transaction fails with
\* PROPAGATION_MANDATORY without invoking fn, beginning a transaction or
\* touching the database; invoked inside a transaction it runs fn in the
\* caller's scope.
C7_MandatoryNeedsTransaction ==
  \A c \in CallIds :
    calls[c].propagation = "MANDATORY" =>
      IF AmbientTransaction(c)
        THEN /\ calls[c].strategy = "runOriginal"
             /\ calls[c].store = calls[calls[c].parent].store
             /\ c \notin DOMAIN txState
        ELSE Rejected(c, "PROPAGATION_MANDATORY")

\* A MANDATORY call made with no ambient transaction has been rejected, and
\* no transaction has been begun.
C7_Witness ==
  \E c \in CallIds :
    /\ calls[c].propagation = "MANDATORY"
    /\ ~AmbientTransaction(c)
    /\ calls[c].error = propagationError("MANDATORY")
    /\ txState = <<>>

\* The step is a call of a NEVER operation from inside a transaction.
NeverCalledInTransaction ==
  /\ NCalls' = NCalls + 1
  /\ calls'[NCalls'].propagation = "NEVER"
  /\ calls'[NCalls'].parent # 0
  /\ stores[calls[calls'[NCalls'].parent].store].tx = "true"

\* C8 (state part): a NEVER operation invoked inside a transaction is rejected
\* with PROPAGATION_NEVER, fn is not invoked and no emitter is created.
C8_NeverRejected ==
  \A c \in CallIds :
    (calls[c].propagation = "NEVER" /\ AmbientTransaction(c))
      => Rejected(c, "PROPAGATION_NEVER")

\* C8: a NEVER operation invoked inside a transaction is rejected with
\* PROPAGATION_NEVER without invoking fn; the call creates no hook scope and
\* changes no binding of any scope, and the outer transaction stays open and
\* resolvable.
C8_NeverInsideTransaction ==
  /\ []C8_NeverRejected
  /\ [][NeverCalledInTransaction =>
          /\ stores' = stores
          /\ emitters' = emitters
          /\ transactionDatabases' = transactionDatabases
          /\ txState' = txState
          /\ \A p \in CallIds :
               calls'[NCalls'].parent = p =>
                 /\ getCurrentDatabaseInfo(calls[p].store)'
                      = getCurrentDatabaseInfo(calls[p].store)
                 /\ calls[p].strategy = "runWithNewTransaction"
                      => /\ txState'[p] = "open"
                         /\ getCurrentDatabaseInfo(calls[p].store)'
                              = TransactionHandle(p)]_vars

\* A NEVER call made inside a transaction has been rejected, the caller has
\* caught the error and is back in its body, its transaction still open.
C8_Witness ==
  \E c \in CallIds :
    /\ calls[c].propagation = "NEVER"
    /\ AmbientTransaction(c)
    /\ calls[c].error = propagationError("NEVER")
    /\ calls[calls[c].parent].pc = "body"
    /\ txState[calls[c].parent] = "open"
    /\ Resolve(calls[c].parent) = TransactionHandle(calls[c].parent)

\* The call whose transaction listener l was registered in, 0 when it was
\* registered outside any transaction.
AttemptOf(l) ==
  LET st == stores[calls[listeners[l].by].store] IN
  IF st.tx = "true" THEN st.dbId ELSE 0

\* C9: every commit listener registered during a transaction attempt that
\* succeeds, by the operation that opened the transaction or by one that
\* joined it, has been invoked exactly once when the attempt and every call
\* made under it have settled.
C9_CommitListenerOnce ==
  \A l \in DOMAIN listeners :
    (/\ listeners[l].kind = "commit"
     /\ AttemptOf(l) # 0
     /\ txState[AttemptOf(l)] = "committed"
     /\ \A d \in CallIds :
          Root(d) = Root(AttemptOf(l)) => calls[d].pc = "done")
    => Invocations(l) = 1

\* Listener invocations made while the hook scope of call c was fired.
FiredBy(c, kind) ==
  {i \in DOMAIN invoked : invoked[i].during = c /\ invoked[i].kind = kind}

\* C10: when the hook scope of call c has been fired, exactly one outcome was
\* signalled: after a successful operation the commit listeners were invoked
\* and no rollback listener was; after a failure with error E the rollback
\* listeners were invoked with E and no commit listener was.
C10_OneOutcomeSignalled ==
  \A c \in DOMAIN emitters :
    calls[c].pc = "done" =>
      /\ FiredBy(c, "commit") = {} \/ FiredBy(c, "rollback") = {}
      /\ calls[c].fnResult = "ok" =>
           /\ FiredBy(c, "rollback") = {}
           /\ \A l \in DOMAIN listeners :
                (/\ listeners[l].emitter = c
                 /\ listeners[l].kind = "commit"
                 /\ \A i \in DOMAIN emitters[c].commit :
                      emitters[c].commit[i] # l)
                => Invocations(l) = 1
      /\ calls[c].fnResult = "err" =>
           /\ FiredBy(c, "commit") = {}
           /\ \A i \in FiredBy(c, "rollback") :
                invoked[i].arg = calls[c].fnError
           /\ \A l \in DOMAIN listeners :
                (/\ listeners[l].emitter = c
                 /\ listeners[l].kind = "rollback"
                 /\ \A i \in DOMAIN emitters[c].rollback :
                      emitters[c].rollback[i] # l)
                => Invocations(l) = 1

\* C11: an error thrown by a listener does not alter the outcome already
\* decided.  When the hook scope of call c has been fired: if the operation
\* succeeded, its transaction (if it opened one) is committed and the call
\* resolves; if the operation failed with E, the call fails with E.
C11_ListenerErrorKeepsOutcome ==
  \A c \in DOMAIN emitters :
    calls[c].pc = "done" =>
      /\ calls[c].fnResult = "ok" =>
           /\ c \in DOMAIN txState => txState[c] = "committed"
           /\ calls[c].result = "ok"
      /\ calls[c].fnResult = "err" =>
           /\ calls[c].result = "err"
           /\ calls[c].error = calls[c].fnError

\* Listener l was registered on the emitter of call c before c settled: by c
\* itself, or by a call that c awaited.
OwnListener(l, c) ==
  /\ listeners[l].emitter = c
  /\ \/ listeners[l].by = c
     \/ /\ calls[listeners[l].by].parent = c
        /\ ~calls[listeners[l].by].floating

\* C12: when a listener throws while the hook scope of call c is fired, the
\* listeners of the same kind registered after it are still invoked, and so
\* are the end listeners of the scope.
C12_ListenerErrorIsolated ==
  \A c \in DOMAIN emitters :
    calls[c].pc = "done" =>
      \A i \in DOMAIN invoked :
        (invoked[i].during = c /\ listeners[invoked[i].listener].throws) =>
          \A l \in DOMAIN listeners :
            (/\ OwnListener(l, c)
             /\ \/ /\ listeners[l].kind = invoked[i].kind
                   /\ l > invoked[i].listener
                \/ listeners[l].kind = "end")
            => Invocations(l) >= 1

\* Listeners of one kind are invoked in the order of their registration
\* (listeners are numbered in that order).
InRegistrationOrder ==
  \A i, j \in DOMAIN invoked :
    (i < j /\ invoked[i].during = invoked[j].during
           /\ invoked[i].kind = invoked[j].kind)
    => invoked[i].listener < invoked[j].listener

\* C13: within the firing of one hook scope, listeners of the same kind are
\* invoked in registration order, and no commit or rollback listener is
\* invoked after an end listener.
C13_FiringOrder ==
  /\ InRegistrationOrder
  /\ \A i, j \in DOMAIN invoked :
       (i < j /\ invoked[i].during = invoked[j].during
              /\ invoked[i].kind = "end")
       => invoked[j].kind = "end"

\* C14: a commit listener is invoked only once the transaction through which
\* the registering operation made its writes has committed, a rollback
\* listener only once that transaction has rolled back.
C14_FiredAfterOutcome ==
  \A i \in DOMAIN invoked :
    \A w \in WritesBy(listeners[invoked[i].listener].by) :
      w.via # BaseDatabase =>
        /\ invoked[i].kind = "commit" => txState[w.via] = "committed"
        /\ invoked[i].kind = "rollback" => txState[w.via] = "rolledBack"

\* The listener kinds that apply when the operation settled with res.
AppliesTo(res) ==
  IF res = "ok" THEN {"commit", "end"} ELSE {"rollback", "end"}

\* C15: in every branch that creates a hook scope, once the wrapped call has
\* settled to its caller every listener of the scope that applies to the
\* operation's outcome has been invoked.
C15_HooksFiredBeforeSettle ==
  \A c \in DOMAIN emitters :
    calls[c].pc = "done" =>
      \A l \in DOMAIN listeners :
        (OwnListener(l, c) /\ listeners[l].kind \in AppliesTo(calls[c].fnResult))
        => Invocations(l) >= 1

\* C16: when the operation of a new-transaction branch fails with E, the
\* transaction is rolled back and the wrapped call fails with E itself.
C16_FailsWithSameError ==
  \A c \in CallIds :
    (/\ calls[c].strategy = "runWithNewTransaction"
     /\ calls[c].pc = "done"
     /\ calls[c].fnResult = "err")
    => /\ txState[c] = "rolledBack"
       /\ calls[c].result = "err"
       /\ calls[c].error = calls[c].fnError

\* Call d joined the transaction of the call that made it.
Joined(d) ==
  /\ calls[d].parent # 0
  /\ calls[d].strategy = "runOriginal"
  /\ calls[d].propagation \in {"REQUIRED", "SUPPORTS", "MANDATORY"}

\* The writes made during the operation of call c: its own and those of the
\* calls that joined its transaction.
WritesDuring(c) ==
  {w \in writes : w.by = c \/ (Joined(w.by) /\ calls[w.by].parent = c)}

\* C17: once a new-transaction call whose operation raised has returned, no
\* write made through resolve() during the operation, by the operation or by
\* a REQUIRED, SUPPORTS or MANDATORY call that joined it, is observable.
C17_FailureRollsBackWrites ==
  \A c \in CallIds :
    (/\ calls[c].strategy = "runWithNewTransaction"
     /\ calls[c].pc = "done"
     /\ calls[c].fnResult = "err")
    => \A w \in WritesDuring(c) : ~Persisted(w)

\* A new-transaction operation has written, a call that joined it has
\* written too, the operation then raised and the call has returned.
C17_Witness ==
  \E c, d \in CallIds :
    /\ calls[c].strategy = "runWithNewTransaction"
    /\ calls[c].pc = "done"
    /\ calls[c].fnResult = "err"
    /\ Joined(d) /\ calls[d].parent = c
    /\ WritesBy(c) # {} /\ WritesBy(d) # {}

\* C18: the registry of live transactions holds the entry of a transaction
\* exactly while the operation wrapped in it is running; the entry is gone
\* once the operation has returned or raised, and the registry is empty when
\* no call is in flight.
C18_RegistryWhileRunning ==
  /\ transactionDatabases \subseteq CallIds
  /\ \A c \in CallIds :
       c \in transactionDatabases
         <=> (calls[c].strategy = "runWithNewTransaction" /\ Running(c))
  /\ (\A c \in CallIds : calls[c].pc = "done") => transactionDatabases = {}

\* The operation of one transaction has raised and left the registry while
\* another transaction's operation is still running and registered.
C18_Witness ==
  \E c, d \in CallIds :
    /\ calls[c].strategy = "runWithNewTransaction"
    /\ calls[c].fnResult = "err"
    /\ c \notin transactionDatabases
    /\ d \in transactionDatabases

\* The hook binding with which the body of a call made from outside starts:
\* the emitter created for it, or none when the branch creates none.
HookAtEntry(p) == IF p \in DOMAIN emitters THEN p ELSE 0

\* C19: after a nested NESTED, REQUIRES_NEW or NOT_SUPPORTED call that the
\* enclosing operation awaited has returned or raised, the hook binding of the
\* enclosing operation is what it was before the call, and the listeners the
\* enclosing operation registers are attached to its own hook scope.
C19_NestedCallLeavesScope ==
  \A c \in CallIds :
    LET p == calls[c].parent IN
    (/\ p # 0
     /\ calls[p].parent = 0
     /\ calls[c].propagation \in {"NESTED", "REQUIRES_NEW", "NOT_SUPPORTED"}
     /\ ~calls[c].floating
     /\ calls[c].pc = "done"
     /\ calls[p].pc = "body")
    => /\ getContextValue(calls[p].store, "hook") = HookAtEntry(p)
       /\ \A l \in DOMAIN listeners :
            listeners[l].by = p => listeners[l].emitter = HookAtEntry(p)

\* ------------------------------------------------ concurrent sibling calls
\* One enclosing operation (call 1) is in its body and starts wrapped calls
\* together, without awaiting one before it starts the next (Promise.all);
\* the siblings then run interleaved.
MaxSiblings == 2           \* calls started together by the enclosing operation
MaxSiblingListeners == 2   \* callbacks the siblings register

SiblingIds == 2..(MaxSiblings + 1)

\* The enclosing operation is a REQUIRED call made from outside, in its body
\* inside the transaction it opened (the state after Wrapper and
\* TransactionRunner) ...
EnclosingInTransaction ==
  /\ calls = <<[NewCall(0, TRUE, "REQUIRED", "runWithNewTransaction",
                        TopStore(1), 0, "begin", "none", NoError)
                  EXCEPT !.pc = "body", !.store = InnerStore(1)]>>
  /\ stores = (TopStore(1) :> [EmptyMap EXCEPT !.hook = 1])
                @@ (InnerStore(1) :>
                      [tx |-> "true", dbId |-> 1, hook |-> 1])
  /\ emitters = <<NewEmitter>>
  /\ transactionDatabases = {1}
  /\ txState = <<"open">>

\* ... or a SUPPORTS call made from outside, in its body with no transaction
\* (the state after Wrapper).
EnclosingNoTransaction ==
  /\ calls = <<NewCall(0, TRUE, "SUPPORTS", "runWithNewHook",
                       TopStore(1), TopStore(1), "body", "none", NoError)>>
  /\ stores = (TopStore(1) :> [EmptyMap EXCEPT !.hook = 1])
  /\ emitters = <<NewEmitter>>
  /\ transactionDatabases = {}
  /\ txState = <<>>

InitSiblings ==
  /\ EnclosingInTransaction \/ EnclosingNoTransaction
  /\ listeners = <<>>
  /\ invoked = <<>>
  /\ writes = {}
  /\ initialized = TRUE
  /\ registeredDatabases = ("default" :> BaseDatabase)
  /\ outside = NoResult
  /\ prototype = NoClass
  /\ methodCache = {}

\* The enclosing operation calls a wrapped function and lets the promise run.
SiblingWrapper(propagation) ==
  /\ NCalls < MaxSiblings + 1
  /\ wrapper(1, propagation, TRUE)

\* A sibling registers a listener.
SiblingRunOnTransaction(c, kind) ==
  /\ Len(listeners) < MaxSiblingListeners
  /\ runOnTransaction(c, kind, FALSE)

NextSiblings ==
  \/ \E propagation \in Propagation : SiblingWrapper(propagation)
  \/ \E c \in SiblingIds : TransactionRunner(c)
  \/ \E c \in SiblingIds, kind \in HookKinds : SiblingRunOnTransaction(c, kind)
  \/ \E c \in SiblingIds : FnReturn(c)
  \/ \E c \in SiblingIds : FnThrow(c)
  \/ \E c \in SiblingIds : TransactionEnd(c)

SpecSiblings == InitSiblings /\ [][NextSiblings]_vars

\* C20: sibling calls started together from one enclosing scope have each a
\* hook scope of their own.  A listener registered by a non-joining sibling c
\* is attached to the emitter of c, is invoked only while the scope of c is
\* fired and with the outcome of c, and once c has settled it has been
\* invoked exactly once if its kind applies to that outcome.
C20_SiblingHookScopes ==
  \A l \in DOMAIN listeners :
    LET c == listeners[l].by IN
    (calls[c].parent # 0 /\ c \in DOMAIN emitters) =>
      /\ listeners[l].emitter = c
      /\ \A i \in DOMAIN invoked :
           invoked[i].listener = l =>
             /\ invoked[i].during = c
             /\ invoked[i].arg = calls[c].fnError
      /\ (calls[c].pc = "done"
            /\ listeners[l].kind \in AppliesTo(calls[c].fnResult))
           => Invocations(l) = 1

\* Call c is in a branch of the resolution table that does not run fn in the
\* caller's transaction: every branch but REQUIRED, SUPPORTS and MANDATORY
\* inside a transaction, and but the rejections.
NonJoining(c) ==
  /\ calls[c].strategy # "throw"
  /\ ~(AmbientTransaction(c)
        /\ calls[c].propagation \in {"REQUIRED", "SUPPORTS", "MANDATORY"})

\* C21: in every branch that does not run fn in the caller's transaction,
\* NOT_SUPPORTED, NEVER and SUPPORTS with no ambient transaction included, a
\* hook scope of the call's own is installed before fn executes; fn never
\* fails with CONTEXT_NO_HOOK, and once fn has settled the scope has been
\* fired and holds no listener.
C21_FreshHookScope ==
  \A c \in CallIds :
    NonJoining(c) =>
      /\ calls[c].pc # "begin" => c \in DOMAIN emitters
      /\ calls[c].fnError # contextError("NO_HOOK")
      /\ (calls[c].pc = "done" /\ c \in DOMAIN emitters)
           => emitters[c] = NewEmitter

\* The transaction of call c failed to begin.
BeginFailed(c) ==
  /\ calls[c].strategy = "runWithNewTransaction"
  /\ calls[c].pc = "done"
  /\ calls[c].fnResult = "none"

\* C22: when the transaction of a call fails to begin, the call fails with
\* the driver's error, fn is never invoked, no hook scope is created or bound
\* in any ambient scope, and the registry holds no entry for the call.
C22_BeginFailureLeavesNothing ==
  \A c \in CallIds :
    BeginFailed(c) =>
      /\ calls[c].result = "err"
      /\ calls[c].error = BeginError(c)
      /\ calls[c].store = 0
      /\ c \notin DOMAIN txState
      /\ c \notin transactionDatabases
      /\ c \notin DOMAIN emitters
      /\ \A s \in DOMAIN stores : stores[s].hook # c

\* The step is a call of an operation declared with an unknown policy.
UnknownCalled ==
  /\ NCalls' = NCalls + 1
  /\ calls'[NCalls'].propagation \notin Propagation

\* C23 (state part): a call of an operation declared with an unknown policy
\* is rejected with PROPAGATION_UNKNOWN; fn is not invoked, no transaction is
\* begun and no emitter is created.
C23_UnknownRejected ==
  \A c \in CallIds :
    calls[c].propagation \notin Propagation
      => Rejected(c, "PROPAGATION_UNKNOWN")

WrapperCalled == NCalls' = NCalls + 1

\* C24 (state part): a call made before initialization was rejected with
\* NOT_INITIALIZED: fn was not invoked, no transaction was begun, no scope
\* was entered and no emitter was created.
C24_NotInitializedRejected ==
  \A c \in CallIds :
    calls[c].error = notInitialized => Rejected(c, "NOT_INITIALIZED")

\* C24: a call of a wrapped operation fails with NOT_INITIALIZED exactly when
\* initializeDrizzleTransactionalContext has not succeeded yet, whatever the
\* policy, and then changes nothing but its own outcome; once initialization
\* has succeeded it stays so, hence no later call fails that check.
C24_NotInitialized ==
  /\ []C24_NotInitializedRejected
  /\ [][WrapperCalled =>
          /\ (calls'[NCalls'].error = notInitialized) <=> ~initialized
          /\ ~initialized =>
                /\ stores' = stores
                /\ emitters' = emitters
                /\ listeners' = listeners
                /\ invoked' = invoked
                /\ transactionDatabases' = transactionDatabases
                /\ txState' = txState
                /\ writes' = writes]_vars
  /\ [][initialized => initialized']_vars

\* A call made before initialization was rejected with NOT_INITIALIZED; after
\* initialization, and a later initialization attempt with invalid options,
\* a call of the same operation runs its fn in a transaction.
C24_Witness ==
  /\ outside.op = "initialize"
  /\ outside.error = InvalidOptionsError
  /\ \E c, d \in CallIds :
       /\ c < d
       /\ calls[c].propagation = calls[d].propagation
       /\ calls[c].error = notInitialized
       /\ calls[d].pc = "body"
       /\ d \in DOMAIN txState
       /\ txState[d] = "open"

\* addTransactionalDrizzleDatabase is called in this step with this name.
AddCalled(name) ==
  /\ outside' # outside
  /\ outside'.op = "add"
  /\ outside'.name = name

\* C25: registering a database under a name that is already bound fails with
\* DATABASE_ALREADY_REGISTERED and leaves the binding of that name and of
\* every other name as it was; under a name not yet bound it succeeds and
\* binds the name to the given database.
C25_AlreadyRegistered ==
  [][\A name \in DatabaseNames :
       AddCalled(name) =>
         IF name \in DOMAIN registeredDatabases
           THEN /\ outside'.error = AlreadyRegisteredError
                /\ registeredDatabases' = registeredDatabases
           ELSE /\ outside'.error = NoError
                /\ DOMAIN registeredDatabases' =
                     DOMAIN registeredDatabases \cup {name}
                /\ registeredDatabases'[name] = outside'.database
                /\ \A n \in DOMAIN registeredDatabases :
                     registeredDatabases'[n] = registeredDatabases[n]]_vars

\* Both names are bound, and the last registration, of another database
\* under a name already bound, was refused: the name is still bound to the
\* database registered first.
C25_Witness ==
  /\ DOMAIN registeredDatabases = DatabaseNames
  /\ outside.op = "add"
  /\ outside.error = AlreadyRegisteredError
  /\ registeredDatabases[outside.name] # outside.database

\* A hook registration function is called outside any scope in this step.
RegisteredOutside ==
  /\ outside' # outside
  /\ outside'.op = "on"

\* fn of call c fails in this step because its registration found no hook.
RegistrationFoundNoHook(c) ==
  /\ c \in CallIds
  /\ calls[c].pc = "body"
  /\ calls'[c].fnError = contextError("NO_HOOK")

\* C26: a hook registration outside any scope fails with CONTEXT_NO_CONTEXT
\* and one inside a scope that holds no hook fails with CONTEXT_NO_HOOK;
\* neither records a listener, attaches one to an emitter or invokes one.
\* A listener is recorded only by a call whose scope holds a hook, and only
\* recorded listeners are ever invoked.
C26_RegistrationWithoutHookScope ==
  /\ [][RegisteredOutside =>
          /\ outside'.error = contextError("NO_CONTEXT")
          /\ listeners' = listeners
          /\ emitters' = emitters
          /\ invoked' = invoked]_vars
  /\ [][\A c \in 1..NCalls :
          RegistrationFoundNoHook(c) =>
            /\ hasActiveContext(calls[c].store)
            /\ getContextValue(calls[c].store, "hook") = 0
            /\ listeners' = listeners
            /\ emitters' = emitters
            /\ invoked' = invoked]_vars
  /\ [][Len(listeners') > Len(listeners) =>
          LET l == listeners'[Len(listeners')] IN
          /\ Len(listeners') = Len(listeners) + 1
          /\ hasActiveContext(calls[l.by].store)
          /\ getContextValue(calls[l.by].store, "hook") # 0
          /\ l.emitter = getContextValue(calls[l.by].store, "hook")]_vars
  /\ [](\A i \in DOMAIN invoked : invoked[i].listener \in DOMAIN listeners)

\* A registration outside any scope was refused with CONTEXT_NO_CONTEXT and
\* the fn of a call failed on CONTEXT_NO_HOOK, while the one listener that
\* another call registered in its hook scope is recorded and was invoked.
C26_Witness ==
  /\ outside.op = "on"
  /\ outside.error = contextError("NO_CONTEXT")
  /\ \E c \in CallIds : calls[c].fnError = contextError("NO_HOOK")
  /\ Len(listeners) = 1
  /\ Len(invoked) = 1

\* The stores from which resolve() can be called with no ambient
\* transaction: none (store 0, outside any scope) and the store of every
\* call that is in its body with the in-transaction flag not true.
StoresWithoutTransaction ==
  {0} \cup {calls[c].store : c \in {d \in CallIds :
                                      /\ calls[d].pc = "body"
                                      /\ stores[calls[d].store].tx # "true"}}

\* C27: resolve(name) called with no ambient transaction, outside any scope
\* or in a scope whose in-transaction flag is not true, returns the base
\* handle registered under name with "is transacting" false, and fails with
\* DATABASE_NOT_FOUND when nothing is registered under name.
C27_ResolveWithoutTransaction ==
  \A s \in StoresWithoutTransaction, name \in DatabaseNames :
    getCurrentDatabaseInfoByName(s, name) =
      IF name \in DOMAIN registeredDatabases
        THEN [database |-> registeredDatabases[name],
              isTransacting |-> FALSE, error |-> NoError]
        ELSE [database |-> NoDatabase, isTransacting |-> FALSE,
              error |-> databaseNotFound(name)]

\* Calls c and d were made from the same scope in the same ambient state.
SameAmbient(c, d) ==
  /\ calls[c].parent = calls[d].parent
  /\ calls[c].scope = calls[d].scope
  /\ AmbientTransaction(c) = AmbientTransaction(d)

\* C28: a NESTED call and a REQUIRES_NEW call made from the same scope, with
\* or without a transaction open there, select the same strategy, have each
\* begun a transaction by the time fn runs, and in their bodies resolve()
\* gives each the handle of its own transaction and each has created a hook
\* scope.
C28_NestedAsRequiresNew ==
  \A c, d \in CallIds :
    (calls[c].propagation = "NESTED" /\ calls[d].propagation = "REQUIRES_NEW"
       /\ SameAmbient(c, d))
    => /\ calls[c].strategy = calls[d].strategy
       /\ (Running(c) /\ Running(d)) =>
            /\ c \in DOMAIN txState <=> d \in DOMAIN txState
            /\ Resolve(c) = TransactionHandle(c)
                 <=> Resolve(d) = TransactionHandle(d)
            /\ c \in DOMAIN emitters <=> d \in DOMAIN emitters

\* C29: every call of a method decorated with @Transactional(m) in a class
\* decorated with @TransactionalClass(c) runs the engine once, from outside,
\* with the propagation of m; when m is NEVER no transaction is begun and no
\* call is rejected with PROPAGATION_NEVER.
C29_MethodOptionsOverride ==
  prototype.decorated =>
    /\ \A c \in CallIds :
         /\ calls[c].parent = 0
         /\ calls[c].propagation = PropagationOf(prototype.methodOptions)
    /\ prototype.methodOptions = "NEVER" =>
         /\ DOMAIN txState = {}
         /\ \A c \in CallIds : calls[c].error # propagationError("NEVER")

\* C30: in the scope of every call whose fn is running, the
\* active-transaction-id is bound if and only if the in-transaction flag is
\* true; a scope made by suspending a transaction carries no
\* active-transaction-id.
C30_FlagAndTransactionIdAgree ==
  \A c \in CallIds :
    Running(c) =>
      /\ getContextValue(calls[c].store, "dbId") # 0
           <=> getContextValue(calls[c].store, "tx") = "true"
      /\ calls[c].strategy = "suspend"
           => getContextValue(calls[c].store, "dbId") = 0

\* ----------------------------------------------------------- joined calls
\* One enclosing operation (call 1) is in its body inside the transaction it
\* opened and calls operations that join it, awaiting each; both register
\* listeners, some of which throw when invoked.
MaxJoinedCalls == 1       \* joined calls the enclosing operation makes
MaxJoinedListeners == 2   \* callbacks registered in the shared scope

JoinedCallIds == 1..(MaxJoinedCalls + 1)

InitJoined ==
  /\ EnclosingInTransaction
  /\ listeners = <<>>
  /\ invoked = <<>>
  /\ writes = {}
  /\ initialized = TRUE
  /\ registeredDatabases = ("default" :> BaseDatabase)
  /\ outside = NoResult
  /\ prototype = NoClass
  /\ methodCache = {}

\* The enclosing operation calls a wrapped function and awaits it.
JoinedWrapper(propagation) ==
  /\ NCalls < MaxJoinedCalls + 1
  /\ calls[1].pc = "body"
  /\ wrapper(1, propagation, FALSE)

\* fn of call c registers a listener.
JoinedRunOnTransaction(c, kind, throws) ==
  /\ Len(listeners) < MaxJoinedListeners
  /\ runOnTransaction(c, kind, throws)

NextJoined ==
  \/ \E propagation \in {"REQUIRED", "SUPPORTS", "MANDATORY"} :
       JoinedWrapper(propagation)
  \/ \E c \in JoinedCallIds, kind \in HookKinds, throws \in BOOLEAN :
       JoinedRunOnTransaction(c, kind, throws)
  \/ \E c \in JoinedCallIds, rethrow \in BOOLEAN : AwaitCall(c, rethrow)
  \/ \E c \in JoinedCallIds : FnReturn(c)
  \/ \E c \in JoinedCallIds : FnThrow(c)
  \/ \E c \in JoinedCallIds : TransactionEnd(c)

SpecJoined == InitJoined /\ [][NextJoined]_vars

\* The call that opened the transaction in which fn of call d runs.
TransactionOwner(d) == getContextValue(calls[d].store, "dbId")

\* C31: a call that joined the transaction of its caller creates no hook
\* scope and fires nothing; a listener it registered is invoked only while
\* the hook scope of the call that owns the transaction is fired, with that
\* call's outcome; and when the joined call raised but the owner, which
\* awaited it, caught the error and succeeded, the joined call's commit
\* listeners have been invoked once and its rollback listeners never.
C31_JoinedCallSharesFiring ==
  \A d \in CallIds :
    Joined(d) =>
      LET o == TransactionOwner(d) IN
      /\ d \notin DOMAIN emitters
      /\ \A i \in DOMAIN invoked : invoked[i].during # d
      /\ \A i \in DOMAIN invoked :
           listeners[invoked[i].listener].by = d =>
             /\ invoked[i].during = o
             /\ invoked[i].kind \in AppliesTo(calls[o].fnResult)
             /\ invoked[i].arg = calls[o].fnError
      /\ (/\ ~calls[d].floating
          /\ calls[d].parent = o
          /\ calls[d].result = "err"
          /\ calls[o].pc = "done"
          /\ calls[o].fnResult = "ok")
         => \A l \in DOMAIN listeners :
              listeners[l].by = d =>
                /\ listeners[l].kind = "commit" => Invocations(l) = 1
                /\ listeners[l].kind = "rollback" => Invocations(l) = 0

\* C32 (state part): a transaction is committed only if the operation of the
\* call that opened it returned, rolled back only if it raised, and it has
\* ended when that call has settled.
C32_OutcomeFollowsOperation ==
  \A t \in DOMAIN txState :
    /\ txState[t] \in {"open", "committed", "rolledBack"}
    /\ txState[t] = "committed" <=>
         (calls[t].pc = "done" /\ calls[t].fnResult = "ok")
    /\ txState[t] = "rolledBack" <=>
         (calls[t].pc = "done" /\ calls[t].fnResult = "err")

Settles(c) ==
  /\ c \in 1..NCalls'
  /\ calls'[c].pc = "done"
  /\ c \in CallIds => calls[c].pc # "done"

\* C33 (state part): a hook scope fires each event kind at most once, that
\* is, all the listener invocations of one kind made for one scope belong to
\* one emit and carry the same argument.
C33_OneFiringPerKind ==
  \A i, j \in DOMAIN invoked :
    (invoked[i].during = invoked[j].during /\ invoked[i].kind = invoked[j].kind)
    => invoked[i].arg = invoked[j].arg

\* C33: a hook scope fires each event kind at most once, and when the call
\* that owns it settles, right after the firing, its commit, rollback and
\* end listener lists are empty, also when a listener has thrown.
C33_FiredOnceAndCleared ==
  /\ []C33_OneFiringPerKind
  /\ [][\A c \in DOMAIN emitters' :
          Settles(c) => emitters'[c] = NewEmitter]_vars

\* Call c has settled, and the transaction it opened, if any, has ended and
\* is out of the registry, rolled back if the operation raised.
Settled(c) ==
  /\ c \in CallIds
  /\ calls[c].pc = "done"
  /\ c \in DOMAIN txState =>
       /\ txState[c] \in {"committed", "rolledBack"}
       /\ c \notin transactionDatabases
       /\ calls[c].fnResult = "err" => txState[c] = "rolledBack"

\* C34: when every wrapped function and every driver call terminates, every
\* call eventually settles, the transaction it opened is by then committed
\* or rolled back and out of the registry, and rolled back, never left open,
\* if the operation raised.
C34_EverythingSettles ==
  \A c \in 1..MaxCalls : (c \in CallIds) ~> Settled(c)

\* Every call the bounds allow has been made and has settled; the operation
\* of one raised inside a transaction, which is rolled back, and the
\* registry is empty.
C34_Witness ==
  /\ NCalls = MaxCalls
  /\ \A c \in CallIds : calls[c].pc = "done"
  /\ transactionDatabases = {}
  /\ \E c \in DOMAIN txState :
       /\ calls[c].fnError = UserError(c)
       /\ txState[c] = "rolledBack"

\* The call made in this step takes a new-transaction branch.
NewTransactionBranchCalled ==
  /\ WrapperCalled
  /\ calls'[NCalls'].strategy = "runWithNewTransaction"

MaxTopLevelCalls == 2

TopLevelCallIds == 1..MaxTopLevelCalls

\* A wrapped function is called from code that runs outside every scope.
TopLevelWrapper(propagation) ==
  /\ NCalls < MaxTopLevelCalls
  /\ wrapper(0, propagation, TRUE)

NextTopLevel ==
  \/ \E propagation \in DeclaredPropagation : TopLevelWrapper(propagation)
  \/ \E c \in TopLevelCallIds : TransactionRunner(c)
  \/ \E c \in TopLevelCallIds : TransactionBeginFails(c)
  \/ \E c \in TopLevelCallIds : FnReturn(c)
  \/ \E c \in TopLevelCallIds : FnThrow(c)
  \/ \E c \in TopLevelCallIds : TransactionEnd(c)
  \/ \E name \in DatabaseNames : ResolveOutside(name)
  \/ \E kind \in HookKinds : RunOnTransactionOutside(kind)

SpecTopLevel == Init /\ [][NextTopLevel]_vars

\* Some call made from outside has settled.
TopLevelCallSettled ==
  \E c \in CallIds : calls[c].parent = 0 /\ calls[c].pc = "done"

\* The wrapper is called from outside in this step and reaches
\* executeWithPropagation's handler without throwing.
EntersFromOutside(c) ==
  /\ c = NCalls + 1
  /\ NCalls' = c
  /\ calls'[c].parent = 0
  /\ calls'[c].strategy # "throw"

StaleScope(c) ==
  /\ c \in CallIds
  /\ calls[c].pc = "body"
  /\ getContextValue(calls[c].store, "dbId") # 0
  /\ getContextValue(calls[c].store, "dbId") \notin transactionDatabases

\* C37: while fn of a call runs in a scope whose transaction id has been
\* deleted from the registry (a call left floating that outlives the
\* transaction it joined), resolve() throws the "No transaction database
\* found" error and yields no handle, and no write of that call is ever
\* issued through any handle.
C37_StaleScopeResolveFails ==
  /\ [](\A c \in 1..MaxCalls :
          StaleScope(c) =>
            Resolve(c) = [database |-> NoDatabase, isTransacting |-> FALSE,
                          error |-> NoTransactionDatabaseError])
  /\ [][\A c \in 1..MaxCalls :
          StaleScope(c) =>
            /\ \A w \in writes' \ writes : w.by # c
            /\ (calls'[c].pc = "done" /\ writes' = writes
                  /\ calls'[c].fnError \notin {NoError, UserError(c)}) =>
                 calls'[c].fnError = NoTransactionDatabaseError]_vars

\* fn of a floating call that joined a transaction failed on resolve()
\* after that transaction had ended.
C37_Witness ==
  \E c \in CallIds :
    /\ calls[c].floating
    /\ calls[c].parent # 0
    /\ calls[c].strategy = "runOriginal"
    /\ calls[c].fnError = NoTransactionDatabaseError
    /\ getContextValue(calls[c].store, "dbId") \in DOMAIN txState
    /\ txState[getContextValue(calls[c].store, "dbId")] # "open"

\* The registered database a handle returned by resolve() belongs to: the
\* handle itself if it is a base database, else the base database on which
\* the transaction was begun (runInDatabaseTransaction(databaseName, ...) of
\* the call that opened it).
DatabaseOfHandle(dbInfo) ==
  IF dbInfo.isTransacting
    THEN registeredDatabases[calls[dbInfo.database].databaseName]
    ELSE dbInfo.database

\* Call d, declared REQUIRED, joined the transaction of its scope.
JoinedRequired(d) ==
  /\ d \in CallIds
  /\ calls[d].propagation = "REQUIRED"
  /\ calls[d].strategy = "runOriginal"
  /\ getContextValue(calls[d].store, "dbId") \in DOMAIN txState

\* C38: in the body of every call, resolve(name) for a registered name
\* returns a handle of the database registered under that name (its base
\* database, or a transaction begun on it), and a REQUIRED operation
\* declared for a registered database joins only a transaction that was
\* begun on that database.
C38_HandleBelongsToNamedDatabase ==
  /\ \A c \in DatabaseCallIds, name \in DatabaseNames :
       (/\ c \in CallIds
        /\ calls[c].pc = "body"
        /\ name \in DOMAIN registeredDatabases) =>
         LET dbInfo == getCurrentDatabaseInfoByName(calls[c].store, name) IN
         dbInfo.error = NoError =>
           DatabaseOfHandle(dbInfo) = registeredDatabases[name]
  /\ \A d \in DatabaseCallIds :
       (JoinedRequired(d)
          /\ calls[d].databaseName \in DOMAIN registeredDatabases) =>
         calls[getContextValue(calls[d].store, "dbId")].databaseName
           = calls[d].databaseName

\* ------------------------------------------------- the database proxy
\* The bodies reach the database through the proxy made by
\* createTransactionalDatabaseProxy(): they read a method of it and call
\* it, and so does code outside every wrapped function.
MaxProxyCalls == 2

ProxyCallIds == 1..MaxProxyCalls

\* A wrapped function is called from outside, or from the body of call p,
\* which awaits it or lets it float.
ProxyWrapper(p, propagation, float) ==
  /\ NCalls < MaxProxyCalls
  /\ p = 0 => float
  /\ p # 0 => (p \in CallIds /\ calls[p].pc = "body")
  /\ wrapper(p, propagation, float)

\* fn of call c reads db[prop] and calls the method it got: the write goes
\* through the handle the method is bound to.
ProxyCall(c, prop) ==
  /\ c \in CallIds
  /\ calls[c].pc = "body"
  /\ LET got == proxyGet(calls[c].store, "default", prop) IN
       IF got.error # NoError
         THEN /\ SettleFn(calls, c, "err", got.error)
              /\ UNCHANGED <<writes, methodCache>>
         ELSE /\ writes' = writes \cup {[by |-> c, via |-> got.method.boundTo]}
              /\ methodCache' = got.cache
              /\ UNCHANGED <<calls, emitters, invoked, transactionDatabases>>
  /\ UNCHANGED <<stores, listeners, txState, initialized, registeredDatabases,
                 outside, prototype>>

\* Code outside every wrapped function reads db[prop] and calls the method.
ProxyCallOutside(prop) ==
  /\ LET got == proxyGet(OutsideStore, "default", prop) IN
       /\ outside' = [op |-> "call", name |-> prop,
                      database |-> got.method.boundTo,
                      isTransacting |-> FALSE, error |-> got.error]
       /\ methodCache' = got.cache
  /\ UNCHANGED <<engine, initialized, registeredDatabases, prototype>>

NextProxy ==
  \/ \E p \in 0..MaxProxyCalls, propagation \in Propagation,
        float \in BOOLEAN : ProxyWrapper(p, propagation, float)
  \/ \E c \in ProxyCallIds : TransactionRunner(c)
  \/ \E c \in ProxyCallIds, rethrow \in BOOLEAN : AwaitCall(c, rethrow)
  \/ \E c \in ProxyCallIds : FnReturn(c)
  \/ \E c \in ProxyCallIds : TransactionEnd(c)
  \/ \E c \in ProxyCallIds, prop \in ProxyProps : ProxyCall(c, prop)
  \/ \E prop \in ProxyProps : ProxyCallOutside(prop)

SpecProxy == Init /\ [][NextProxy]_vars

\* The handle resolve() finds in store s: the transaction whose id the store
\* carries, or the registered base database when it carries none.
ResolvedHandle(s) ==
  IF getContextValue(s, "dbId") = 0
    THEN registeredDatabases["default"]
    ELSE getContextValue(s, "dbId")

\* The cache of bound methods never crosses scopes: a method read from the
\* proxy is bound to the handle that getCurrentDatabaseInfo finds at that
\* very access, and every cached method is bound to the handle it is cached
\* under.
BoundToResolvedHandle ==
  /\ [][\A c \in ProxyCallIds :
          \A w \in writes' \ writes :
            w.by = c => w.via = ResolvedHandle(calls[c].store)]_vars
  /\ [](\A e \in methodCache :
          e.method = BoundMethod(e.prop, e.target))

\* The handle current in store s as the ambient state defines it: the
\* active transaction where the in-transaction flag is true, the base
\* database elsewhere.
CurrentHandle(s) ==
  IF getContextValue(s, "tx") = "true"
    THEN getContextValue(s, "dbId")
    ELSE registeredDatabases["default"]

\* C39: a method read from the proxy is bound to the handle current in the
\* scope of that very access, whatever the cache holds from earlier accesses
\* in other scopes: in the body of a call inside a transaction the write
\* goes through that transaction, which is registered at that moment; in a
\* body with no transaction and outside every wrapped function it goes
\* through the base database; and every cached method is bound to the
\* handle it is cached under.
C39_MethodBoundToCurrentHandle ==
  /\ [][\A c \in ProxyCallIds :
          \A w \in writes' \ writes :
            w.by = c =>
              /\ w.via = CurrentHandle(calls[c].store)
              /\ w.via # registeredDatabases["default"] =>
                   w.via \in transactionDatabases]_vars
  /\ [][(outside' # outside /\ outside'.op = "call") =>
          /\ outside'.error = NoError
          /\ outside'.database = registeredDatabases["default"]]_vars
  /\ [](\A e \in methodCache :
          e.method = BoundMethod(e.prop, e.target))

\* ----------------------------------------------- the registry of databases
\* The application registers, removes and resolves databases from outside
\* every wrapped function, and calls wrapped functions meanwhile.
MaxRegistryCalls == 1

RegistryCallIds == 1..MaxRegistryCalls

\* removeDrizzleDatabaseByName(name): registeredDatabases.delete(name), which
\* returns whether the name was bound.
removeDrizzleDatabaseByName(name) ==
  /\ registeredDatabases' =
       [n \in DOMAIN registeredDatabases \ {name} |-> registeredDatabases[n]]
  /\ outside' = Returned(IF name \in DOMAIN registeredDatabases
                           THEN "remove:true" ELSE "remove:false",
                         name, NoError)
  /\ UNCHANGED <<engine, initialized, prototype, methodCache>>

\* A wrapped function is called from outside.
RegistryWrapper(propagation) ==
  /\ NCalls < MaxRegistryCalls
  /\ wrapper(0, propagation, TRUE)

NextRegistry ==
  \/ \E valid \in BOOLEAN : initializeDrizzleTransactionalContext(valid)
  \/ \E database \in {BaseDatabase, OtherDatabase}, name \in DatabaseNames :
       addTransactionalDrizzleDatabase(database, name)
  \/ \E name \in DatabaseNames : removeDrizzleDatabaseByName(name)
  \/ \E name \in DatabaseNames : ResolveOutside(name)
  \/ \E propagation \in DeclaredPropagation : RegistryWrapper(propagation)
  \/ \E c \in RegistryCallIds : TransactionRunner(c)
  \/ \E c \in RegistryCallIds : FnReturn(c)
  \/ \E c \in RegistryCallIds : TransactionEnd(c)

SpecRegistry == InitSetup /\ [][NextRegistry]_vars

\* C40: once a name is registered it stays bound to the same base database:
\* no operation changes or removes the binding, and resolve(name) from
\* outside any transaction returns that database.
C40_RegistrationWriteOnce ==
  /\ [][\A name \in DatabaseNames :
          name \in DOMAIN registeredDatabases =>
            /\ name \in DOMAIN registeredDatabases'
            /\ registeredDatabases'[name] = registeredDatabases[name]]_vars
  /\ [][(outside' # outside /\ outside'.op = "resolve"
           /\ outside'.name \in DOMAIN registeredDatabases) =>
          /\ outside'.error = NoError
          /\ outside'.database = registeredDatabases[outside'.name]]_vars

====
